---- MODULE Spec2Model ----
(***************************************************************************)
(* Voice-chat demo: RecognizerAdaptor (recog.py), Model (model.py) and the *)
(* ChatAPI facade (chat.py).                                               *)
(*                                                                         *)
(* Python values are modelled as follows.  A str is a sequence of          *)
(* one-character strings, so that concatenation, joining and JSON          *)
(* escaping are computed character by character.  A dict is a TLA+ record  *)
(* whose DOMAIN is the set of its keys.  Dicts are mutable objects that    *)
(* live in a heap; a list holds references (heap indices), so that two     *)
(* lists can share the same dict.  An exception is a record of its class   *)
(* name and its str() value; a message is a sequence of string pieces.     *)
(***************************************************************************)
EXTENDS Integers, Sequences, FiniteSets, TLC

\* ------------------------------------------------------------------ bounds
MaxCalls == 2     \* chat() / stream_chat() calls made in one behaviour
MaxMut == 1       \* mutations the caller performs on returned history lists

\* ------------------------------------------------------------------ values
None == <<"None">>
USER == <<"u", "s", "e", "r">>
ASSISTANT == <<"a", "s", "s", "i", "s", "t", "a", "n", "t">>

\* Texts the speech service may return and callers may pass to chat().
Utterances == { <<"h", "i">>, <<"\"", "\\">> }
\* Streamed replies: the delta.content of each chunk the provider will deliver,
\* in order, before it ends the stream.
StreamScripts ==
    { <<>>,
      << None, <<"o">>, <<>>, <<"k", "\"">> >>,
      << <<"k", "\"">>, <<"o">> >> }
\* message.content of a complete (non-streamed) reply.
ReplyContents == { None, <<"o", "k", "\"">> }
\* Values a caller writes into a dict it was handed.
CallerTexts == { <<"x">> }

RECURSIVE Join(_)
\* ''.join(parts)
Join(parts) == IF parts = <<>> THEN <<>> ELSE Head(parts) \o Join(Tail(parts))

\* -------------------------------------------------------------- exceptions
NoExc == [cls |-> "none", msg |-> <<>>]
Exc(cls, msg) == [cls |-> cls, msg |-> msg]

\* Base class of each exception class that occurs.
Parent(cls) ==
    CASE cls = "FileNotFoundError" -> "OSError"
      [] cls = "Exception" -> "BaseException"
      [] cls = "BaseException" -> "object"
      [] OTHER -> "Exception"

RECURSIVE IsInstance(_, _)
IsInstance(cls, k) ==
    IF cls = k THEN TRUE
    ELSE IF cls \in {"object", "none"} THEN FALSE
    ELSE IsInstance(Parent(cls), k)

\* --------------------------------------------------- environment outcomes
\* What one call into a library or provider does: it returns ret or raises exc.
Returned(v) == [exc |-> NoExc, ret |-> v]
Raised(e) == [exc |-> e, ret |-> None]

\* sr.Microphone() / adjust_for_ambient_noise / listen
MicOutcomes ==
    { Returned(<<"audio">>), Raised(Exc("OSError", <<"No Default Input Device Available">>)) }
\* sr.AudioFile(path) / record
FileOutcomes ==
    { Returned(<<"audio">>),
      Raised(Exc("FileNotFoundError", <<"No such file or directory">>)),
      Raised(Exc("ValueError", <<"Audio file could not be read">>)) }
\* Recognizer.recognize_google
GoogleOutcomes ==
    { Returned(u) : u \in Utterances } \cup
    { Raised(Exc("UnknownValueError", <<>>)),
      Raised(Exc("RequestError", <<"recognition connection failed">>)),
      Raised(Exc("ValueError", <<"bad response">>)) }

\* A ChatCompletionMessage: name is an attribute only of some provider objects.
ReplyMessages ==
    { [role |-> ASSISTANT, content |-> c] : c \in ReplyContents } \cup
    { [role |-> ASSISTANT, content |-> c, name |-> None] : c \in ReplyContents }
\* client.chat.completions.create(...)
CreateOutcomes ==
    { Returned([choices |-> <<m>>]) : m \in ReplyMessages } \cup
    { Returned([choices |-> <<>>]),
      Raised(Exc("APIError", <<"Connection error.">>)) }
\* --------------------------------------------------------------- recog.py
\* except-clauses of RecognizerAdaptor.recognize_from_mic
MicHandler(e) ==
    IF IsInstance(e.cls, "UnknownValueError")
    THEN Exc("RecognitionError", <<"Speech could not be understood">>)
    ELSE IF IsInstance(e.cls, "RequestError")
    THEN Exc("RecognitionError", <<"Speech recognition service error: ">> \o e.msg)
    ELSE IF IsInstance(e.cls, "Exception")
    THEN Exc("RecognitionError", <<"Recognition failed: ">> \o e.msg)
    ELSE e

\* Variant: the catch-all clause comes before the FileNotFoundError clause.
FileHandler_CatchAllFirst(e) ==
    IF IsInstance(e.cls, "UnknownValueError")
    THEN Exc("RecognitionError", <<"Speech could not be understood">>)
    ELSE IF IsInstance(e.cls, "RequestError")
    THEN Exc("RecognitionError", <<"Speech recognition service error: ">> \o e.msg)
    ELSE IF IsInstance(e.cls, "Exception")
    THEN Exc("RecognitionError", <<"Recognition failed: ">> \o e.msg)
    ELSE e

\* except-clauses of RecognizerAdaptor.recognize
FileHandler(e) ==
    IF IsInstance(e.cls, "UnknownValueError")
    THEN Exc("RecognitionError", <<"Speech could not be understood">>)
    ELSE IF IsInstance(e.cls, "RequestError")
    THEN Exc("RecognitionError", <<"Speech recognition service error: ">> \o e.msg)
    ELSE IF IsInstance(e.cls, "FileNotFoundError")
    THEN Exc("FileNotFoundError", <<"Audio file not found: ", "audio_file">>)
    ELSE IF IsInstance(e.cls, "Exception")
    THEN Exc("RecognitionError", <<"Recognition failed: ">> \o e.msg)
    ELSE e

\* Number of recognize_google requests one call makes once the audio is there.
GoogleAttempts(src) == IF src.exc = NoExc THEN 1 ELSE 0

\* try-body of recognize / recognize_from_mic: capture audio from src, then
\* one recognize_google request.  [exc, ret, attempts].
Transcribe(src, google) ==
    IF src.exc # NoExc
    THEN [exc |-> src.exc, ret |-> None, attempts |-> GoogleAttempts(src)]
    ELSE [exc |-> google.exc, ret |-> google.ret, attempts |-> GoogleAttempts(src)]

RecognizeFromMicResult(mic, google) ==
    LET r == Transcribe(mic, google)
    IN  IF r.exc = NoExc THEN r ELSE [r EXCEPT !.exc = MicHandler(r.exc)]

RecognizeResult(file, google) ==
    LET r == Transcribe(file, google)
    IN  IF r.exc = NoExc THEN r ELSE [r EXCEPT !.exc = FileHandler(r.exc)]

\* --------------------------------------------------------------- model.py
\* The dict chat() appends for the user's message.
UserEntry(message, name) == [role |-> USER, content |-> message, name |-> name]

HasAttr(obj, attr) == attr \in DOMAIN obj

\* Variant: the reply is filed under the user's role.
NormalEntry_AsUser(top_choice) ==
    [role |-> USER,
     content |-> top_choice.content,
     name |-> IF HasAttr(top_choice, "name") THEN top_choice.name ELSE None]

\* The dict _handle_normal_response builds from response.choices[0].message.
NormalEntry(top_choice) ==
    [role |-> top_choice.role,
     content |-> top_choice.content,
     name |-> IF HasAttr(top_choice, "name") THEN top_choice.name ELSE None]

\* Variant: the newest chunk is put first.
StreamStep_Prepends(full_response, content) ==
    IF content # None THEN <<content>> \o full_response ELSE full_response

\* One iteration of the loop of _handle_stream_response.
StreamStep(full_response, content) ==
    IF content # None THEN Append(full_response, content) ELSE full_response

\* The dict _handle_stream_response appends once the loop has ended.
StreamEntry(full_response) == [role |-> ASSISTANT, content |-> Join(full_response)]

\* except-clause of Model.chat
ChatHandler(e) ==
    IF IsInstance(e.cls, "Exception")
    THEN Exc("ModelError", <<"Chat completion failed: ">> \o e.msg)
    ELSE e

\* except-clause of Model.save_conversation
SaveHandler(e) ==
    IF IsInstance(e.cls, "Exception")
    THEN Exc("ModelError", <<"Failed to save conversation: ">> \o e.msg)
    ELSE e

\* ------------------------------------------------- json.dump / json.load
\* Keys of the dicts of a history, in the order the dict literals insert them.
KeyOrder == <<"role", "content", "name">>

KeyChars(k) ==
    CASE k = "role" -> <<"r", "o", "l", "e">>
      [] k = "content" -> <<"c", "o", "n", "t", "e", "n", "t">>
      [] k = "name" -> <<"n", "a", "m", "e">>

\* Variant: the backslash is written as it is.
EscapeChar_KeepsBackslash(c) ==
    CASE c = "\"" -> <<"\\", "\"">>
      [] c = "\n" -> <<"\\", "n">>
      [] OTHER -> <<c>>

\* json.encoder: py_encode_basestring replaces these characters (ensure_ascii=False).
EscapeChar(c) ==
    CASE c = "\"" -> <<"\\", "\"">>
      [] c = "\\" -> <<"\\", "\\">>
      [] c = "\n" -> <<"\\", "n">>
      [] OTHER -> <<c>>

RECURSIVE EscapeStr(_)
EscapeStr(s) == IF s = <<>> THEN <<>> ELSE EscapeChar(Head(s)) \o EscapeStr(Tail(s))

DumpStr(s) == <<"\"">> \o EscapeStr(s) \o <<"\"">>

DumpValue(v) == IF v = None THEN <<"n", "u", "l", "l">> ELSE DumpStr(v)

RECURSIVE DumpMembers(_, _)
\* The members of dict d named by the key sequence ks, one per line at indent 4.
DumpMembers(d, ks) ==
    IF ks = <<>> THEN <<>>
    ELSE <<" ", " ", " ", " ">> \o DumpStr(KeyChars(Head(ks))) \o <<":", " ">>
         \o DumpValue(d[Head(ks)])
         \o (IF Tail(ks) = <<>> THEN <<"\n">> ELSE <<",", "\n">>)
         \o DumpMembers(d, Tail(ks))

KeysOf(d) == SelectSeq(KeyOrder, LAMBDA k : k \in DOMAIN d)

DumpDict(d) ==
    IF KeysOf(d) = <<>> THEN <<"{", "}">>
    ELSE <<"{", "\n">> \o DumpMembers(d, KeysOf(d)) \o <<" ", " ", "}">>

RECURSIVE DumpItems(_)
DumpItems(l) ==
    IF l = <<>> THEN <<>>
    ELSE <<" ", " ">> \o DumpDict(Head(l))
         \o (IF Tail(l) = <<>> THEN <<"\n">> ELSE <<",", "\n">>)
         \o DumpItems(Tail(l))

\* json.dump(messages, f, ensure_ascii=False, indent=2): the characters written.
JsonDump(l) == IF l = <<>> THEN <<"[", "]">> ELSE <<"[", "\n">> \o DumpItems(l) \o <<"]">>

\* json.decoder.  Every parser returns [ok, val, pos]: pos is the index after the value.
Whitespace == {" ", "\n", "\t", "\r"}
ParseFail == [ok |-> FALSE, val |-> <<>>, pos |-> 0]
Parsed(v, p) == [ok |-> TRUE, val |-> v, pos |-> p]
At(s, i) == IF i <= Len(s) THEN s[i] ELSE "EOF"

RECURSIVE SkipWs(_, _)
SkipWs(s, i) == IF At(s, i) \in Whitespace THEN SkipWs(s, i + 1) ELSE i

UnescapeChar(c) == CASE c = "n" -> "\n" [] c = "t" -> "\t" [] OTHER -> c

RECURSIVE ScanString(_, _, _)
\* py_scanstring from the character after the opening quote.
ScanString(s, i, acc) ==
    IF i > Len(s) THEN ParseFail
    ELSE IF s[i] = "\"" THEN Parsed(acc, i + 1)
    ELSE IF s[i] = "\\"
    THEN IF i + 1 > Len(s) THEN ParseFail
         ELSE ScanString(s, i + 2, Append(acc, UnescapeChar(s[i + 1])))
    ELSE ScanString(s, i + 1, Append(acc, s[i]))

\* A dict value of a history file: a string or null.
ParseValue(s, i) ==
    IF At(s, i) = "\"" THEN ScanString(s, i + 1, <<>>)
    ELSE IF i + 3 <= Len(s) /\ SubSeq(s, i, i + 3) = <<"n", "u", "l", "l">>
    THEN Parsed(None, i + 4)
    ELSE ParseFail

EmptyDict == [k \in {} |-> None]

RECURSIVE ParseMembers(_, _, _)
\* JSONObject from the first key on; d holds the members parsed so far.
ParseMembers(s, i, d) ==
    IF At(s, i) # "\"" THEN ParseFail
    ELSE LET key == ScanString(s, i + 1, <<>>)
             names == {k \in {"role", "content", "name"} : KeyChars(k) = key.val}
             colon == SkipWs(s, key.pos)
             value == ParseValue(s, SkipWs(s, colon + 1))
             after == SkipWs(s, value.pos)
             dd == (CHOOSE k \in names : TRUE) :> value.val @@ d
         IN  IF ~key.ok \/ names = {} \/ At(s, colon) # ":" THEN ParseFail
             ELSE IF ~value.ok THEN ParseFail
             ELSE IF At(s, after) = "}" THEN Parsed(dd, after + 1)
             ELSE IF At(s, after) = "," THEN ParseMembers(s, SkipWs(s, after + 1), dd)
             ELSE ParseFail

ParseObject(s, i) ==
    IF At(s, i) # "{" THEN ParseFail
    ELSE IF At(s, SkipWs(s, i + 1)) = "}" THEN Parsed(EmptyDict, SkipWs(s, i + 1) + 1)
    ELSE ParseMembers(s, SkipWs(s, i + 1), EmptyDict)

RECURSIVE ParseItems(_, _, _)
\* JSONArray from the first item on; l holds the items parsed so far.
ParseItems(s, i, l) ==
    LET item == ParseObject(s, i)
        after == SkipWs(s, item.pos)
    IN  IF ~item.ok THEN ParseFail
        ELSE IF At(s, after) = "]" THEN Parsed(Append(l, item.val), after + 1)
        ELSE IF At(s, after) = "," THEN ParseItems(s, SkipWs(s, after + 1), Append(l, item.val))
        ELSE ParseFail

ParseArray(s, i) ==
    IF At(s, i) # "[" THEN ParseFail
    ELSE IF At(s, SkipWs(s, i + 1)) = "]" THEN Parsed(<<>>, SkipWs(s, i + 1) + 1)
    ELSE ParseItems(s, SkipWs(s, i + 1), <<>>)

\* json.load of a history file: the whole text is one array.
JsonLoad(s) ==
    LET r == ParseArray(s, SkipWs(s, 1))
    IN  IF r.ok /\ SkipWs(s, r.pos) = Len(s) + 1 THEN r ELSE ParseFail

\* ---------------------------------------------------------------- chat.py
\* Variant: one catch-all clause.
StreamChatHandler_CatchAll(e) ==
    IF IsInstance(e.cls, "Exception")
    THEN Exc("ChatError", <<"Chat processing failed: ">> \o e.msg)
    ELSE e

\* Variant: only recognition errors are wrapped.
StreamChatHandler_RecognitionOnly(e) ==
    IF IsInstance(e.cls, "RecognitionError")
    THEN Exc("ChatError", <<"Speech recognition failed: ">> \o e.msg)
    ELSE e

\* except-clauses of ChatAPI.stream_chat
StreamChatHandler(e) ==
    IF IsInstance(e.cls, "RecognitionError")
    THEN Exc("ChatError", <<"Speech recognition failed: ">> \o e.msg)
    ELSE IF IsInstance(e.cls, "Exception")
    THEN Exc("ChatError", <<"Chat processing failed: ">> \o e.msg)
    ELSE e

\* except-clauses of main() in chat.py: what the demo does with an exception.
MainHandler(e) ==
    IF IsInstance(e.cls, "ChatError") THEN <<"Chat error: ">> \o e.msg
    ELSE IF IsInstance(e.cls, "Exception") THEN <<"Unexpected error: ">> \o e.msg
    ELSE <<"Traceback">>

\* ------------------------------------------------------------------ state
VARIABLES
    user_name,  \* Model.user_name
    heap,       \* the dict objects allocated so far, by reference
    messages,   \* Model.messages: a list of references to dicts
    snap,       \* the list most recently returned by get_conversation_history()
    file,       \* the characters of the file save_conversation() writes
    pc,         \* "idle", or "streaming" while chat() iterates a streamed reply
    frame,      \* the chat() call that is iterating a streamed reply: its locals,
                \* the chunks delivered so far and the history when it began
    last,       \* the most recent operation and what it returned or raised
    nCalls,     \* chat() / stream_chat() calls begun
    nMut,       \* caller mutations performed
    nFailed     \* chat() calls that raised since self.messages was last emptied

vars == <<user_name, heap, messages, snap, file, pc, frame, last, nCalls, nMut, nFailed>>

NoSnap == <<0>>
NoFile == <<"no file">>
NoFrame ==
    [caller |-> "none", user_input |-> None, attempts |-> 0, before |-> <<>>,
     response |-> <<>>, full_response |-> <<>>, delivered |-> <<>>]

\* The dicts a list of references holds, as values.
Deref(l) == [i \in 1..Len(l) |-> heap[l[i]]]
History == Deref(messages)

\* Record of a finished operation: the text it worked on (the message passed to
\* chat(), the text stream_chat() heard), what it raised (exc) or returned (ret),
\* the exception it caught and wrapped (inner), the recognize_google requests
\* (attempts) and Model.chat() calls (chats) it made, and the reply contents
\* the provider delivered to it.
Op(name, stream, arg, exc, inner, ret, attempts, chats, delivered) ==
    [op |-> name, stream |-> stream, arg |-> arg, exc |-> exc, inner |-> inner,
     ret |-> ret, attempts |-> attempts, chats |-> chats, delivered |-> delivered]

Quiet(name) == Op(name, FALSE, None, NoExc, NoExc, None, 0, 0, <<>>)

Init ==
    /\ user_name \in {USER}
    /\ heap = <<>>
    /\ messages = <<>>
    /\ snap = NoSnap
    /\ file = NoFile
    /\ pc = "idle"
    /\ frame = NoFrame
    /\ last = Quiet("init")
    /\ nCalls = 0
    /\ nMut = 0
    /\ nFailed = 0

\* ------------------------------------------------------ Model.chat, ChatAPI
\* Variant: the facade returns the pair the other way round.
ChatEnds_SwapsPair(caller, user_input, stream, attempts, delivered, exc, ret) ==
    LET raised == IF exc = NoExc THEN NoExc ELSE ChatHandler(exc)
    IN  IF caller = "model"
        THEN Op("chat", stream, user_input, raised, exc, ret, 0, 1, delivered)
        ELSE Op("stream_chat", stream, user_input,
                IF raised = NoExc THEN NoExc ELSE StreamChatHandler(raised),
                raised,
                IF raised = NoExc THEN <<ret, user_input>> ELSE None,
                attempts, 1, delivered)

\* How a chat() call that was entered ends, seen by the caller of chat()
\* (caller = "model") or of stream_chat() (caller = "api").  exc is what the
\* try-body of chat() raised, NoExc if it returned ret.  The facade catches
\* what chat() raises.
ChatEnds(caller, user_input, stream, attempts, delivered, exc, ret) ==
    LET raised == IF exc = NoExc THEN NoExc ELSE ChatHandler(exc)
    IN  IF caller = "model"
        THEN Op("chat", stream, user_input, raised, exc, ret, 0, 1, delivered)
        ELSE Op("stream_chat", stream, user_input,
                IF raised = NoExc THEN NoExc ELSE StreamChatHandler(raised),
                raised,
                IF raised = NoExc THEN <<user_input, ret>> ELSE None,
                attempts, 1, delivered)

\* Model.chat(message, stream) with the provider answering create() by created.
ChatBody(caller, attempts, message, stream, created) ==
    LET user == UserEntry(message, user_name)
        withUser == Append(heap, user)
        choices == created.ret.choices
    IN  /\ nCalls' = nCalls + 1
        /\ UNCHANGED <<user_name, snap, file, nMut>>
        /\ IF created.exc # NoExc
           THEN /\ heap' = withUser
                /\ messages' = Append(messages, Len(withUser))
                /\ pc' = "idle"
                /\ frame' = NoFrame
                /\ last' = ChatEnds(caller, message, stream, attempts, <<>>, created.exc, None)
                /\ nFailed' = nFailed + 1
           ELSE IF stream
           THEN /\ heap' = withUser
                /\ messages' = Append(messages, Len(withUser))
                /\ pc' = "streaming"
                /\ frame' = [caller |-> caller, user_input |-> message, attempts |-> attempts,
                             before |-> History, response |-> created.ret,
                             full_response |-> <<>>, delivered |-> <<>>]
                /\ last' = Quiet("pending")
                /\ UNCHANGED nFailed
           ELSE IF choices = <<>>
           THEN /\ heap' = withUser
                /\ messages' = Append(messages, Len(withUser))
                /\ pc' = "idle"
                /\ frame' = NoFrame
                /\ last' = ChatEnds(caller, message, stream, attempts, <<>>,
                                    Exc("IndexError", <<"list index out of range">>), None)
                /\ nFailed' = nFailed + 1
           ELSE /\ heap' = Append(withUser, NormalEntry(choices[1]))
                /\ messages' = messages \o <<Len(withUser), Len(withUser) + 1>>
                /\ pc' = "idle"
                /\ frame' = NoFrame
                /\ last' = ChatEnds(caller, message, stream, attempts,
                                    <<choices[1].content>>, NoExc, choices[1].content)
                /\ UNCHANGED nFailed

\* What create() may answer in either mode.
CreateAnswers(stream) ==
    IF stream
    THEN { Returned(sc) : sc \in StreamScripts } \cup
         { Raised(Exc("APIError", <<"Connection error.">>)) }
    ELSE CreateOutcomes

\* Model.chat called directly.
Chat(message, stream, created) ==
    /\ pc = "idle"
    /\ nCalls < MaxCalls
    /\ ChatBody("model", 0, message, stream, created)

\* ChatAPI.stream_chat: recognize_from_mic, then Model.chat.
StreamChat(stream, mic, google, created) ==
    LET heard == RecognizeFromMicResult(mic, google)
    IN  /\ pc = "idle"
        /\ nCalls < MaxCalls
        /\ IF heard.exc # NoExc
           THEN /\ last' = Op("stream_chat", stream, heard.ret, StreamChatHandler(heard.exc),
                              heard.exc, None, heard.attempts, 0, <<>>)
                /\ nCalls' = nCalls + 1
                /\ UNCHANGED <<user_name, heap, messages, snap, file, pc, frame, nMut, nFailed>>
           ELSE ChatBody("api", heard.attempts, heard.ret, stream, created)

\* _handle_stream_response: the provider delivers the next chunk.
StreamChunk ==
    /\ pc = "streaming"
    /\ frame.response # <<>>
    /\ frame' = [frame EXCEPT !.response = Tail(@),
                              !.full_response = StreamStep(@, Head(frame.response)),
                              !.delivered = Append(@, Head(frame.response))]
    /\ UNCHANGED <<user_name, heap, messages, snap, file, pc, last, nCalls, nMut, nFailed>>

\* _handle_stream_response: the stream ends; join, append, return.
StreamEnd ==
    LET complete_response == Join(frame.full_response)
    IN  /\ pc = "streaming"
        /\ frame.response = <<>>
        /\ heap' = Append(heap, StreamEntry(frame.full_response))
        /\ messages' = Append(messages, Len(heap) + 1)
        /\ pc' = "idle"
        /\ frame' = NoFrame
        /\ last' = ChatEnds(frame.caller, frame.user_input, TRUE, frame.attempts,
                            frame.delivered, NoExc, complete_response)
        /\ UNCHANGED <<user_name, snap, file, nCalls, nMut, nFailed>>

\* Variant: a stream that breaks still appends what was accumulated.
StreamRaise_KeepsPartial(e) ==
    /\ pc = "streaming"
    /\ heap' = Append(heap, StreamEntry(frame.full_response))
    /\ messages' = Append(messages, Len(heap) + 1)
    /\ pc' = "idle"
    /\ frame' = NoFrame
    /\ last' = ChatEnds(frame.caller, frame.user_input, TRUE, frame.attempts,
                        frame.delivered, e, None)
    /\ nFailed' = nFailed + 1
    /\ UNCHANGED <<user_name, snap, file, nCalls, nMut>>

\* _handle_stream_response: iterating the response raises.
StreamRaise(e) ==
    /\ pc = "streaming"
    /\ pc' = "idle"
    /\ frame' = NoFrame
    /\ last' = ChatEnds(frame.caller, frame.user_input, TRUE, frame.attempts,
                        frame.delivered, e, None)
    /\ nFailed' = nFailed + 1
    /\ UNCHANGED <<user_name, heap, messages, snap, file, nCalls, nMut>>

\* ------------------------------------------------- the other Model methods
\* Rebinding self.messages drops the old list: its dicts are freed unless a
\* list handed to the caller still refers to dicts.
Release(h, other) == IF other \in {NoSnap, <<>>} THEN <<>> ELSE h

\* Variant: the reset drops only the oldest entry.
ClearConversation_DropsOldest ==
    /\ pc = "idle"
    /\ messages' = IF messages = <<>> THEN <<>> ELSE Tail(messages)
    /\ heap' = heap
    /\ last' = Quiet("clear")
    /\ nFailed' = 0
    /\ UNCHANGED <<user_name, snap, file, pc, frame, nCalls, nMut>>

\* Model.clear_conversation (ChatAPI.clear_conversation delegates to it).
ClearConversation ==
    /\ pc = "idle"
    /\ messages' = <<>>
    /\ heap' = Release(heap, snap)
    /\ last' = Quiet("clear")
    /\ nFailed' = 0
    /\ UNCHANGED <<user_name, snap, file, pc, frame, nCalls, nMut>>

\* self.messages.copy(): a new list holding the same references.
ListCopy(l) == l

\* Model.get_conversation_history
GetConversationHistory ==
    /\ pc = "idle"
    /\ snap' = ListCopy(messages)
    /\ last' = Quiet("get_history")
    /\ UNCHANGED <<user_name, heap, messages, file, pc, frame, nCalls, nMut, nFailed>>

\* ChatAPI.get_conversation_history
ApiGetConversationHistory ==
    /\ pc = "idle"
    /\ snap' = ListCopy(messages)
    /\ last' = Quiet("api_get_history")
    /\ UNCHANGED <<user_name, heap, messages, file, pc, frame, nCalls, nMut, nFailed>>

\* How the file system treats one save: "ok", or open() raises, or a write raises.
WriteOutcomes == {"ok", "open", "write"}

\* Model.save_conversation (ChatAPI.save_conversation delegates to it).
SaveConversation(io) ==
    LET text == JsonDump(History)
        failed == SaveHandler(Exc("OSError", <<"No space left on device">>))
    IN  /\ pc = "idle"
        /\ file' = CASE io = "ok" -> text
                     [] io = "open" -> file
                     [] io = "write" -> SubSeq(text, 1, Len(text) \div 2)
        /\ last' = Op("save", FALSE, None, IF io = "ok" THEN NoExc ELSE failed, NoExc,
                      None, 0, 0, <<>>)
        /\ UNCHANGED <<user_name, heap, messages, snap, pc, frame, nCalls, nMut, nFailed>>

\* ------------------------------------------------------ RecognizerAdaptor
RecognizeFromMic(mic, google) ==
    LET r == RecognizeFromMicResult(mic, google)
    IN  /\ pc = "idle"
        /\ last' = Op("recognize_from_mic", FALSE, None, r.exc,
                      IF mic.exc # NoExc THEN mic.exc ELSE google.exc,
                      r.ret, r.attempts, 0, <<>>)
        /\ UNCHANGED <<user_name, heap, messages, snap, file, pc, frame, nCalls, nMut, nFailed>>

Recognize(audio, google) ==
    LET r == RecognizeResult(audio, google)
    IN  /\ pc = "idle"
        /\ last' = Op("recognize", FALSE, None, r.exc,
                      IF audio.exc # NoExc THEN audio.exc ELSE google.exc,
                      r.ret, r.attempts, 0, <<>>)
        /\ UNCHANGED <<user_name, heap, messages, snap, file, pc, frame, nCalls, nMut, nFailed>>

\* ----------------------------------- the caller, on a list it was returned
CallerAppend(text) ==
    /\ pc = "idle" /\ snap # NoSnap /\ nMut < MaxMut
    /\ heap' = Append(heap, UserEntry(text, USER))
    /\ snap' = Append(snap, Len(heap) + 1)
    /\ nMut' = nMut + 1
    /\ last' = Quiet("caller")
    /\ UNCHANGED <<user_name, messages, file, pc, frame, nCalls, nFailed>>

CallerRemove(i) ==
    /\ pc = "idle" /\ snap # NoSnap /\ nMut < MaxMut
    /\ i \in 1..Len(snap)
    /\ snap' = SubSeq(snap, 1, i - 1) \o SubSeq(snap, i + 1, Len(snap))
    /\ nMut' = nMut + 1
    /\ last' = Quiet("caller")
    /\ UNCHANGED <<user_name, heap, messages, file, pc, frame, nCalls, nFailed>>

CallerSetField(i, key, text) ==
    /\ pc = "idle" /\ snap # NoSnap /\ nMut < MaxMut
    /\ i \in 1..Len(snap)
    /\ key \in DOMAIN heap[snap[i]]
    /\ heap' = [heap EXCEPT ![snap[i]][key] = text]
    /\ nMut' = nMut + 1
    /\ last' = Quiet("caller")
    /\ UNCHANGED <<user_name, messages, snap, file, pc, frame, nCalls, nFailed>>

\* ----------------------------------------------------------- specifications
\* The program is single-threaded and its components do not share state beyond
\* Model.messages, so each specification takes the operations one group of
\* properties ranges over: the conversation turn (Spec), the turn with
\* save_conversation (SpecSave), the turn with get_conversation_history and a
\* caller holding the returned list (SpecHistory), the recognizer (SpecRecog).
ChatStep ==
    \/ \E m \in Utterances, s \in BOOLEAN : \E c \in CreateAnswers(s) : Chat(m, s, c)
    \/ StreamChunk
    \/ StreamEnd
    \/ StreamRaise(Exc("APIError", <<"Connection lost.">>))

\* The Model and the facade's turn: chat(), stream_chat(), clear_conversation().
Next ==
    \/ ChatStep
    \/ \E s \in BOOLEAN, mic \in MicOutcomes, g \in GoogleOutcomes :
           \E c \in CreateAnswers(s) : StreamChat(s, mic, g, c)
    \/ ClearConversation

Spec == Init /\ [][Next]_vars

\* The Model with save_conversation().
SaveNext ==
    \/ ChatStep
    \/ ClearConversation
    \/ \E io \in WriteOutcomes : SaveConversation(io)

SpecSave == Init /\ [][SaveNext]_vars

\* The Model with get_conversation_history() and a caller that uses the list.
HistoryNext ==
    \/ ChatStep
    \/ ClearConversation
    \/ GetConversationHistory
    \/ ApiGetConversationHistory
    \/ \E t \in CallerTexts : CallerAppend(t)
    \/ \E i \in 1..Len(snap) : CallerRemove(i)
    \/ \E i \in 1..Len(snap), k \in {"role", "content"}, t \in CallerTexts :
           CallerSetField(i, k, t)

SpecHistory == Init /\ [][HistoryNext]_vars

\* The RecognizerAdaptor alone and under the facade.
RecogNext ==
    \/ \E mic \in MicOutcomes, g \in GoogleOutcomes : RecognizeFromMic(mic, g)
    \/ \E a \in FileOutcomes, g \in GoogleOutcomes : Recognize(a, g)
    \/ \E mic \in MicOutcomes, g \in GoogleOutcomes :
           \E c \in CreateAnswers(FALSE) : StreamChat(FALSE, mic, g, c)

SpecRecog == Init /\ [][RecogNext]_vars

\* ------------------------------------------------------------------ claims
\* The concatenation, in order, of the contents of the chunks that have one.
Concat(chunks) == Join(SelectSeq(chunks, LAMBDA c : c # None))

\* In a step that ends a chat() call: the history when that call began.
Before == IF pc = "streaming" THEN frame.before ELSE History

\* The exception Model.chat() raised in the operation l, NoExc if none.
ChatRaised(l) ==
    IF l.op = "chat" THEN l.exc
    ELSE IF l.op = "stream_chat" /\ l.chats > 0 THEN l.inner
    ELSE NoExc

\* The reply text the operation l returned to its caller.
Reply(l) == IF l.op = "stream_chat" THEN l.ret[2] ELSE l.ret

\* The history h is the history g followed by the entries of more.
Extends(h, g, more) ==
    /\ Len(h) = Len(g) + Len(more)
    /\ \A i \in 1..Len(g) : h[i] = g[i]
    /\ \A i \in 1..Len(more) : h[Len(g) + i] = more[i]

\* C1 as stated: every non-streaming chat() call makes the history exactly 2
\* longer, the length decreases only through clear_conversation(), and after
\* clear_conversation() the length is 0.
C1_EveryCallAddsTwo ==
    [][ /\ (last'.op = "chat" /\ ~last'.stream) => Len(messages') = Len(messages) + 2
        /\ Len(messages') < Len(messages) => last'.op = "clear"
        /\ last'.op = "clear" => Len(messages') = 0 ]_vars

\* C1 amended: a non-streaming chat() call that returns makes the history
\* exactly 2 longer (a user-role entry, then an assistant-role entry), one that
\* raises makes it exactly 1 longer (the user-role entry); the length decreases
\* only through clear_conversation(), after which it is 0.
C1_CallAddsTwoOrOne ==
    [][ /\ (last'.op = "chat" /\ ~last'.stream /\ last'.exc = NoExc) =>
               /\ Len(messages') = Len(messages) + 2
               /\ \A i \in 1..Len(messages) : History'[i] = History[i]
               /\ History'[Len(messages) + 1].role = USER
               /\ History'[Len(messages) + 2].role = ASSISTANT
        /\ (last'.op = "chat" /\ ~last'.stream /\ last'.exc # NoExc) =>
               /\ Len(messages') = Len(messages) + 1
               /\ \A i \in 1..Len(messages) : History'[i] = History[i]
               /\ History'[Len(messages) + 1].role = USER
        /\ Len(messages') < Len(messages) => last'.op = "clear"
        /\ last'.op = "clear" => Len(messages') = 0 ]_vars

\* A non-streaming call returned after an earlier call had failed.
C1_Witness ==
    /\ last.op = "chat" /\ ~last.stream /\ last.exc = NoExc
    /\ Len(messages) = 3

\* C2: a streaming chat() that returned text T leaves the history that a
\* non-streaming chat() leaves whose reply is an assistant message with content
\* T: the entry it appended is the entry _handle_normal_response builds.
C2_StreamEqualsNormal ==
    (last.op = "chat" /\ last.stream /\ last.exc = NoExc) =>
        \A reply \in { [role |-> ASSISTANT, content |-> last.ret],
                       [role |-> ASSISTANT, content |-> last.ret, name |-> None] } :
            /\ reply.content = Concat(last.delivered)
            /\ History[Len(History)] = NormalEntry(reply)

\* C3: when the provider call of chat() fails (create() raises, the reply has
\* no choice, or iterating the stream raises), chat() raises ModelError with the
\* completion-failed message and the history is the history before the call
\* plus the user message, nothing else.
C3_FailureKeepsUserMessage ==
    [][ ChatRaised(last') # NoExc =>
            /\ ChatRaised(last').cls = "ModelError"
            /\ Len(ChatRaised(last').msg) > 0
            /\ ChatRaised(last').msg[1] = "Chat completion failed: "
            /\ last'.op = "chat" => last'.exc.msg = <<"Chat completion failed: ">> \o last'.inner.msg
            /\ Extends(History', Before,
                       << [role |-> USER, content |-> last'.arg, name |-> user_name] >>) ]_vars

\* A stream broke after chunks had been delivered, in the second call.
C3_Witness ==
    /\ last.op = "chat" /\ last.stream /\ last.exc # NoExc
    /\ Len(last.delivered) > 1
    /\ Len(messages) = 3

\* C4: the list get_conversation_history() returns is an immutable snapshot:
\* nothing the caller does to it (adding or removing entries, changing a field
\* of an entry) changes the Model's history, and no later chat() or
\* clear_conversation() changes the list or the entries it holds.
C4_SnapshotIsIsolated ==
    [][ /\ last'.op = "caller" => (messages' = messages /\ History' = History)
        /\ (snap # NoSnap /\ last'.op \in {"chat", "pending", "clear"}) =>
               (snap' = snap /\ Deref(snap)' = Deref(snap))
        /\ (snap # NoSnap /\ pc = "streaming") =>
               (snap' = snap /\ Deref(snap)' = Deref(snap)) ]_vars

\* C5: when recognition fails inside stream_chat(), it raises ChatError of the
\* recognition-failed kind carrying the original message, Model.chat() is not
\* called, and the history is what it was.
C5_RecognitionFailureLeavesHistory ==
    [][ (last'.op = "stream_chat" /\ last'.arg = None) =>
            /\ last'.exc.cls = "ChatError"
            /\ last'.exc.msg = <<"Speech recognition failed: ">> \o last'.inner.msg
            /\ last'.chats = 0
            /\ messages' = messages
            /\ History' = History
            /\ pc' = "idle" ]_vars

\* Speech was not understood in a turn that followed a completed turn.
C5_Witness ==
    /\ last.op = "stream_chat" /\ last.arg = None
    /\ last.inner = Exc("RecognitionError", <<"Speech could not be understood">>)
    /\ Len(messages) = 2

\* C6: in streaming mode the reply is the concatenation, in arrival order, of
\* the content of every chunk delivered; one assistant-role entry holding it is
\* appended, in the step that ends the call and only once the provider has
\* nothing more to deliver; until then the history is the history before the
\* call plus the user message.
C6_StreamAccumulatesInOrder ==
    [][ pc = "streaming" =>
            /\ Extends(History, frame.before, <<UserEntry(frame.user_input, user_name)>>)
            /\ messages' # messages =>
                   /\ frame.response = <<>>
                   /\ pc' = "idle"
                   /\ last'.exc = NoExc
                   /\ Reply(last') = Concat(frame.delivered)
                   /\ last'.delivered = frame.delivered
                   /\ Extends(History', History,
                              << [role |-> ASSISTANT, content |-> Concat(frame.delivered)] >>)
            /\ (pc' = "idle" /\ last'.exc = NoExc) => messages' # messages ]_vars

\* A streamed reply of four chunks, one without content and one empty, returned.
C6_Witness ==
    /\ last.op = "chat" /\ last.stream /\ last.exc = NoExc
    /\ Len(last.delivered) = 4
    /\ last.ret = <<"o", "k", "\"">>

\* C7: save_conversation() leaves the history unchanged; when it returns,
\* loading the file yields the array get_conversation_history() returns at that
\* moment; when writing fails it raises ModelError with the save-failed message.
C7_SaveRoundTrip ==
    [][ last'.op = "save" =>
            /\ messages' = messages
            /\ History' = History
            /\ last'.exc = NoExc =>
                   JsonLoad(file') = Parsed(Deref(ListCopy(messages)), Len(file') + 1)
            /\ last'.exc # NoExc =>
                   /\ last'.exc.cls = "ModelError"
                   /\ last'.exc.msg[1] = "Failed to save conversation: " ]_vars

\* A history of four entries was saved: quotes and backslashes in a text, a
\* null content, an entry without a name.
C7_Witness ==
    /\ last.op = "save" /\ last.exc = NoExc
    /\ Len(messages) = 4
    /\ History[1].content = <<"\"", "\\">>
    /\ \E i \in 1..Len(messages) : History[i].content = None
    /\ \E i \in 1..Len(messages) : "name" \notin DOMAIN History[i]

\* C8: when recognition yields U and the provider replies R, stream_chat()
\* returns (U, R) and the history is the prior history plus a user-role entry
\* with content U and an assistant-role entry with content R.
C8_TurnReturnsPair ==
    [][ (last'.op = "stream_chat" /\ last'.exc = NoExc) =>
            LET U == last'.arg
                R == IF last'.stream THEN Concat(last'.delivered) ELSE last'.delivered[1]
                h == History'
                n == Len(Before)
            IN  /\ U \in Utterances
                /\ last'.ret = <<U, R>>
                /\ Len(h) = n + 2
                /\ \A i \in 1..n : h[i] = Before[i]
                /\ h[n + 1] = [role |-> USER, content |-> U, name |-> user_name]
                /\ h[n + 2].role = ASSISTANT
                /\ h[n + 2].content = R ]_vars

\* The first turn of a fresh ChatAPI returned.
C8_Witness ==
    /\ last.op = "stream_chat" /\ last.exc = NoExc
    /\ last.ret = << <<"h", "i">>, <<"o", "k", "\"">> >>
    /\ Len(messages) = 2
    /\ nCalls = 1

\* C9: whatever stream_chat() raises is a ChatError; a Model.chat() failure is
\* a ChatError whose message is the chat-failed prefix followed by the
\* ModelError's message, a recognition failure has the other prefix; the demo's
\* handler logs it as a chat error.
C9_OnlyChatErrorEscapes ==
    (last.op = "stream_chat" /\ last.exc # NoExc) =>
        /\ last.exc.cls = "ChatError"
        /\ last.chats > 0 =>
               /\ last.inner.cls = "ModelError"
               /\ last.exc.msg = <<"Chat processing failed: ">> \o last.inner.msg
        /\ last.chats = 0 => last.exc.msg[1] = "Speech recognition failed: "
        /\ MainHandler(last.exc) = <<"Chat error: ">> \o last.exc.msg

\* Model.chat() failed inside stream_chat() while a stream was iterated.
C9_Witness ==
    /\ last.op = "stream_chat" /\ last.exc # NoExc
    /\ last.chats = 1 /\ last.stream
    /\ last.delivered # <<>>

\* C10: a recognizer call makes at most one recognize_google request and maps
\* what the library raised: UnknownValueError to the not-understood
\* RecognitionError, RequestError to the service-error RecognitionError, a
\* missing file in recognize() to FileNotFoundError, anything else to the
\* recognition-failed RecognitionError; recognize_from_mic() raises nothing but
\* RecognitionError.
C10_FailureMapping ==
    last.op \in {"recognize", "recognize_from_mic"} =>
        /\ last.attempts <= 1
        /\ last.inner = NoExc => (last.exc = NoExc /\ last.ret \in Utterances)
        /\ last.inner.cls = "UnknownValueError" =>
               last.exc = Exc("RecognitionError", <<"Speech could not be understood">>)
        /\ last.inner.cls = "RequestError" =>
               last.exc = Exc("RecognitionError",
                              <<"Speech recognition service error: ">> \o last.inner.msg)
        /\ (last.op = "recognize" /\ last.inner.cls = "FileNotFoundError") =>
               last.exc.cls = "FileNotFoundError"
        /\ last.inner.cls \in {"ValueError", "OSError"} =>
               last.exc = Exc("RecognitionError", <<"Recognition failed: ">> \o last.inner.msg)
        /\ (last.op = "recognize_from_mic" /\ last.exc # NoExc) =>
               last.exc.cls = "RecognitionError"

\* recognize() was called on a path that does not exist.
C10_Witness ==
    /\ last.op = "recognize"
    /\ last.inner.cls = "FileNotFoundError"
    /\ last.attempts = 0

\* The number of entries of the history h that carry the given role.
CountRole(h, role) == Cardinality({ i \in 1..Len(h) : h[i].role = role })

\* C11: whatever chat(), stream_chat() and clear_conversation() calls were made,
\* the history is empty or begins with a user-role entry; every entry is a
\* user-role entry or a reply, and every reply comes right after a user-role
\* entry; once the calls have ended, the user-role entries outnumber the replies
\* by exactly the number of chat() calls that raised since the history was last
\* cleared (while a streamed reply is still being read, by one more: the call's
\* own message); two user-role entries in a row occur only after a call raised.
C11_HistoryShape ==
    /\ History = <<>> \/ History[1].role = USER
    /\ \A i \in 1..Len(History) :
           /\ History[i].role \in {USER, ASSISTANT}
           /\ History[i].role = ASSISTANT => i > 1 /\ History[i - 1].role = USER
    /\ CountRole(History, USER) - CountRole(History, ASSISTANT) =
           nFailed + (IF pc = "streaming" THEN 1 ELSE 0)
    /\ (\E i \in 2..Len(History) : History[i - 1].role = USER /\ History[i].role = USER)
           => nFailed > 0

\* A call that raised and then a call that returned: two user-role entries in
\* a row, then the reply.
C11_Witness ==
    /\ pc = "idle"
    /\ nFailed = 1
    /\ ChatRaised(last) = NoExc /\ last.chats = 1
    /\ Len(History) = 3
    /\ History[1].role = USER /\ History[2].role = USER /\ History[3].role = ASSISTANT

====
